---- MODULE Spec2Model ----
(***************************************************************************)
(* The command dispatcher of the TeamSpeak 3 ServerQuery client            *)
(* (src/client.go, lines 1-424): the read loop messageHandler, the write   *)
(* loop workHandler, ExecCmd callers and Close, over one connection to a   *)
(* server.                                                                 *)
(*                                                                         *)
(* Channels.  work and response are unbuffered: a send and a receive are   *)
(* one joint step of the two goroutines.  closing and done are only ever   *)
(* closed, so each is a boolean.  A select takes any case that can         *)
(* proceed; a select that holds <-c.done never hands over on c.work once   *)
(* done is closed, because the runtime resolves the select of the parked   *)
(* party at the moment of close(c.done).                                   *)
(*                                                                         *)
(* Time.  time.After and time.NewTimer are timers that may fire at any     *)
(* moment at which the goroutine waits in the select that holds them.      *)
(* The runs of TimedSpec keep the time of workHandler's keep-alive timer.  *)
(*                                                                         *)
(* Ghost state.  Every command carries the number of the ExecCmd call      *)
(* that issued it, and every line the server produces for a command        *)
(* carries that number (field cmd); the code never reads it.               *)
(***************************************************************************)
EXTENDS Integers, Sequences, FiniteSets, TLC

\* ------------------------------------------------------------------ bounds
NumUsers == 2        \* goroutines that call ExecCmd
NumClosers == 1      \* goroutines that call Close
MaxCalls == 2        \* ExecCmd calls made by users, in total
MaxData == 1         \* data lines of one response
MaxEvents == 1       \* unrequested events: notifications, trailers that answer
                     \* no command, failures of the network
notifyBufSize == 1   \* capacity of c.notify (option NotificationBuffer)
MaxLines == 2        \* data lines of one response in the runs that decode
MaxNotify == 2       \* notification lines the server sends

Users == 1..NumUsers
Closers == (NumUsers + 1)..(NumUsers + NumClosers)
Procs == Users \cup Closers

VARIABLES
    pc,          \* position of each caller goroutine
    cmd,         \* the command of the call in progress: [id, quit, target, afterClose,
                 \*                                       doneAtCall]
    result,      \* what the last finished ExecCmd of each caller returned
    calls,       \* number of ExecCmd calls each caller has started
    whPc,        \* workHandler: "select", "respErr", "exited", "panicked"
    mhPc,        \* messageHandler: "scan", "sendResp", "respErr", "exited", "panicked"
    mhResp,      \* messageHandler: the response it is sending on c.response
    buf,         \* messageHandler: the partial-response buffer
    notify,      \* c.notify: the buffered notifications
    notifyClosed,\* c.notify has been closed
    closing,     \* c.closing has been closed
    done,        \* c.done has been closed
    conn,        \* the connection: [closed, writeBroken, eof]
    inbox,       \* lines sent by the server and not yet scanned
    srvIn,       \* commands written to the connection and not yet answered
    env,         \* what bounds the run: [calls, events, notifies, lines, decode, timed,
                 \*                       bare]
    nc,          \* the NewClient call: [at, connectHeader, read]
    fx,          \* a call of a function of the codec: [op, in, out]
    timer,       \* workHandler's time.After(c.keepAlive): [after, idle]
    hist         \* ghost: [timedOut, fatal, doneCloses, stray, closed, failedWrite,
                 \*         lastNotif, dropped]

vars == <<pc, cmd, result, calls, whPc, mhPc, mhResp, buf, notify,
          notifyClosed, closing, done, conn, inbox, srvIn, env, nc, fx, timer, hist>>

\* The n-th ExecCmd call of caller p issues command <<p, n>>.
\* afterClose (ghost): the call was made after a Close had returned.
\* doneAtCall (ghost): done was closed when the call was made.
NoCmd == [id |-> <<0, 0>>, quit |-> FALSE, target |-> FALSE, afterClose |-> FALSE,
          doneAtCall |-> FALSE]
NoId == <<0, 0>>
NoResp == [err |-> "none", lines |-> <<>>, of |-> NoId]
ErrTimeout == [err |-> "ErrTimeout", lines |-> <<>>, of |-> NoId]
ErrNotConnected == [err |-> "ErrNotConnected", lines |-> <<>>, of |-> NoId]
\* The error of a failed read or write (io.ErrUnexpectedEOF, "scan: ...", "write: ...").
ErrIO == [err |-> "io", lines |-> <<>>, of |-> NoId]

\* What the callers and the server still do in a run, as counters already
\* used up: either the callers make up to MaxCalls calls and the server
\* sends no notification, or they make one call and the server sends up to
\* MaxNotify notifications.
Budgets ==
    {[calls |-> 0, events |-> 0, notifies |-> MaxNotify,
      lines |-> MaxData, decode |-> FALSE, timed |-> FALSE, bare |-> FALSE],
     [calls |-> MaxCalls - 1, events |-> 0, notifies |-> 0,
      lines |-> MaxData, decode |-> FALSE, timed |-> FALSE, bare |-> FALSE]}

\* DefaultConnectHeader, and the header of a client query (option ConnectHeader).
ConnectHeaders == {"TS3", "TS3 Client"}

\* The line the server sends after the header.
Banner == [kind |-> "banner", cmd |-> <<0, 0>>, no |-> 0]

\* The timer of workHandler's select when it is entered.  after: the time the
\* timer has run; idle (ghost): the time since workHandler last took a
\* command from c.work or wrote keepAliveData.  Time is kept in the runs
\* with env.timed; in the others a timer fires at any moment.
NoTime == [after |-> 0, idle |-> 0]

\* No function of the codec has been called.
NoFx == [op |-> "none", in |-> <<>>, out |-> <<>>]

\* The budget of the runs that decode: one call of a user, with or without a
\* decode target, answered with up to MaxLines data lines, and one notification.
DecodeBudget ==
    [calls |-> MaxCalls - 1, events |-> 0, notifies |-> MaxNotify - 1,
     lines |-> MaxLines, decode |-> TRUE, timed |-> FALSE, bare |-> FALSE]

\* NewClient, after the header and the banner were read: both loops started.
ClientStarted(budgets) ==
    /\ nc = [at |-> "ok", connectHeader |-> "TS3",
             read |-> <<[kind |-> "TS3", cmd |-> <<0, 0>>, no |-> 0], Banner>>]
    /\ pc = [p \in Procs |-> "idle"]
    /\ cmd = [p \in Procs |-> NoCmd]
    /\ result = [p \in Procs |-> NoResp]
    /\ calls = [p \in Procs |-> 0]
    /\ whPc = "select"
    /\ mhPc = "scan"
    /\ mhResp = NoResp
    /\ buf = <<>>
    /\ notify = <<>>
    /\ notifyClosed = FALSE
    /\ closing = FALSE
    /\ done = FALSE
    /\ conn = [closed |-> FALSE, writeBroken |-> FALSE, eof |-> FALSE]
    /\ inbox = <<>>
    /\ srvIn = <<>>
    /\ env \in budgets
    /\ timer = NoTime
    /\ hist = [timedOut |-> {}, fatal |-> FALSE, doneCloses |-> 0, stray |-> FALSE,
               closed |-> FALSE, failedWrite |-> NoId, lastNotif |-> 0,
               dropped |-> {}]

Init == fx = NoFx /\ ClientStarted(Budgets)

\* closeDone, had it closed c.done without doneOnce.
closeDoneNoOnce(h) == [h EXCEPT !.doneCloses = @ + 1]

\* closeDone: doneOnce.Do(close(c.done)).
closeDone(h) == [h EXCEPT !.doneCloses = IF done THEN @ ELSE @ + 1]

\* fatalError, had it closed c.done itself.
fatalErrorCloses(h) == [h EXCEPT !.doneCloses = @ + 1, !.fatal = TRUE]

\* fatalError(err) with err # nil: closeDone, and the error is a fatal one.
fatalError(h) == [closeDone(h) EXCEPT !.fatal = TRUE]

\* ------------------------------------------------------------- ExecCmd
\* ExecCmd returns r: a user is idle again, Close goes on to conn.Close().
Return(p, r) ==
    /\ pc' = [pc EXCEPT ![p] = IF p \in Users THEN "idle" ELSE "connClose"]
    /\ result' = [result EXCEPT ![p] = r]

\* What ExecCmd returns for a received response: (nil, resp.err) or (resp.lines, nil).
Returned(resp) == IF resp.err # "nil" THEN [resp EXCEPT !.lines = <<>>] ELSE resp

\* DecodeResponse, had it decoded the first line whatever the number of lines.
DecodeResponseFirstLine(lines, ok) == IF ok THEN "nil" ELSE "decode"

\* The errors of DecodeResponse: NewInvalidResponseError("too many lines"),
\* NewInvalidResponseError("no lines"), and what decoding the line gives.
DecodeErrors == {"too many lines", "no lines", "decode"}

\* DecodeResponse(lines, v): an error for more than one line and for no line;
\* for one line, ok tells whether its records decode into v.
DecodeResponse(lines, ok) ==
    IF Len(lines) > 1 THEN "too many lines"
    ELSE IF Len(lines) = 0 THEN "no lines"
    ELSE IF ok THEN "nil" ELSE "decode"

\* What ExecCmd makes of what Returned gives when cmd.response is set:
\* (nil, err) if DecodeResponse fails.
Decoded(c, r, ok) ==
    IF r.err = "nil" /\ c.target /\ DecodeResponse(r.lines, ok) # "nil"
      THEN [r EXCEPT !.err = DecodeResponse(r.lines, ok), !.lines = <<>>]
      ELSE r

\* Whether the one line of a response decodes depends on its text and on the
\* target: either outcome.
DecodeOutcomes(c, resp) ==
    IF c.target /\ resp.err = "nil" /\ Len(resp.lines) = 1 THEN BOOLEAN ELSE {TRUE}

\* cmd.response of a call: set or nil, where the run has commands with a
\* decode target.
Targets == IF env.decode THEN BOOLEAN ELSE {FALSE}

\* A user calls ExecCmd and reaches the first select.
ExecStart(u) ==
    /\ pc[u] = "idle"
    /\ env.calls < MaxCalls
    /\ pc' = [pc EXCEPT ![u] = "send"]
    /\ \E t \in Targets :
          cmd' = [cmd EXCEPT ![u] = [id |-> <<u, calls[u] + 1>>, quit |-> FALSE,
                                     target |-> t, afterClose |-> hist.closed,
                                     doneAtCall |-> done]]
    /\ result' = [result EXCEPT ![u] = NoResp]
    /\ calls' = [calls EXCEPT ![u] = @ + 1]
    /\ env' = [env EXCEPT !.calls = @ + 1]
    /\ UNCHANGED <<whPc, mhPc, mhResp, buf, notify, notifyClosed, closing,
                   done, conn, inbox, srvIn, hist>>
    /\ UNCHANGED <<nc, fx, timer>>

\* cmd.String(): what is written for a command (the ghost fields are not).
Wire(c) == [id |-> c.id, quit |-> c.quit]

\* c.write: SetWriteDeadline and conn.Write fail on a closed or broken connection.
writeFails == conn.closed \/ conn.writeBroken

\* ExecSend, had workHandler kept one timer running across the commands.
ExecSendTimerKept(p) ==
    /\ pc[p] = "send"
    /\ whPc = "select"
    /\ ~done
    /\ pc' = [pc EXCEPT ![p] = "wait"]
    /\ IF writeFails
         THEN /\ done' = TRUE
              /\ hist' = [fatalError(hist) EXCEPT !.failedWrite = cmd[p].id]
              /\ whPc' = "respErr"
              /\ UNCHANGED srvIn
         ELSE /\ srvIn' = IF conn.eof THEN srvIn ELSE Append(srvIn, Wire(cmd[p]))
              /\ UNCHANGED <<done, hist, whPc>>
    /\ UNCHANGED <<cmd, result, calls, mhPc, mhResp, buf, notify, notifyClosed,
                   closing, conn, inbox, env>>
    /\ UNCHANGED <<nc, fx>>
    /\ timer' = [timer EXCEPT !.idle = 0]

\* case c.work <- cmd.String(), received by workHandler's case w := <-c.work,
\* which then runs c.write([]byte(w)).  On a write error fatalError closes
\* done and responseErr offers the error on c.response.  A command written
\* after the server has gone is lost.  The next pass of the loop enters the
\* select with a new timer.
ExecSend(p) ==
    /\ pc[p] = "send"
    /\ whPc = "select"
    /\ ~done
    /\ pc' = [pc EXCEPT ![p] = "wait"]
    /\ IF writeFails
         THEN /\ done' = TRUE
              /\ hist' = [fatalError(hist) EXCEPT !.failedWrite = cmd[p].id]
              /\ whPc' = "respErr"
              /\ UNCHANGED srvIn
         ELSE /\ srvIn' = IF conn.eof THEN srvIn ELSE Append(srvIn, Wire(cmd[p]))
              /\ UNCHANGED <<done, hist, whPc>>
    /\ UNCHANGED <<cmd, result, calls, mhPc, mhResp, buf, notify, notifyClosed,
                   closing, conn, inbox, env>>
    /\ UNCHANGED <<nc, fx>>
    /\ timer' = NoTime

\* ExecNotConnected, had ExecCmd returned no error when done is closed.
ExecNotConnectedNil(p) ==
    /\ pc[p] = "send"
    /\ done
    /\ Return(p, [err |-> "nil", lines |-> <<>>, of |-> NoId])
    /\ UNCHANGED <<cmd, calls, whPc, mhPc, mhResp, buf, notify, notifyClosed,
                   closing, done, conn, inbox, srvIn, env, hist>>
    /\ UNCHANGED <<nc, fx, timer>>

\* case <-c.done: return nil, ErrNotConnected.
ExecNotConnected(p) ==
    /\ pc[p] = "send"
    /\ done
    /\ Return(p, ErrNotConnected)
    /\ UNCHANGED <<cmd, calls, whPc, mhPc, mhResp, buf, notify, notifyClosed,
                   closing, done, conn, inbox, srvIn, env, hist>>
    /\ UNCHANGED <<nc, fx, timer>>

\* ExecRecv, had messageHandler kept the buffered lines after an error trailer.
ExecRecvBufKept(p) ==
    /\ UNCHANGED <<nc, fx, timer>>
    /\ pc[p] = "wait"
    /\ mhPc = "sendResp"
    /\ \E ok \in DecodeOutcomes(cmd[p], mhResp) :
          Return(p, Decoded(cmd[p], Returned(mhResp), ok))
    /\ mhPc' = "scan"
    /\ mhResp' = NoResp
    /\ UNCHANGED <<cmd, calls, whPc, buf, notify, notifyClosed, closing, done,
                   conn, inbox, srvIn, env, hist>>

\* case resp = <-c.response, sent by messageHandler's c.response <- resp.
\* After an error trailer messageHandler then drops the buffered lines.
ExecRecv(p) ==
    /\ pc[p] = "wait"
    /\ mhPc = "sendResp"
    /\ \E ok \in DecodeOutcomes(cmd[p], mhResp) :
          Return(p, Decoded(cmd[p], Returned(mhResp), ok))
    /\ mhPc' = "scan"
    /\ mhResp' = NoResp
    /\ buf' = IF mhResp.err = "nil" THEN buf ELSE <<>>
    /\ UNCHANGED <<cmd, calls, whPc, notify, notifyClosed, closing, done,
                   conn, inbox, srvIn, env, hist>>
    /\ UNCHANGED <<nc, fx, timer>>

\* case resp = <-c.response, sent by responseErr in messageHandler, which
\* then returns: close(c.notify), wg.Done().
ExecRecvReadErr(p) ==
    /\ pc[p] = "wait"
    /\ mhPc = "respErr"
    /\ Return(p, ErrIO)
    /\ mhPc' = "exited"
    /\ notifyClosed' = TRUE
    /\ UNCHANGED <<cmd, calls, whPc, mhResp, buf, notify, closing, done,
                   conn, inbox, srvIn, env, hist>>
    /\ UNCHANGED <<nc, fx, timer>>

\* case resp = <-c.response, sent by responseErr in workHandler, which then returns.
ExecRecvWriteErr(p) ==
    /\ pc[p] = "wait"
    /\ whPc = "respErr"
    /\ Return(p, ErrIO)
    /\ whPc' = "exited"
    /\ UNCHANGED <<cmd, calls, mhPc, mhResp, buf, notify, notifyClosed,
                   closing, done, conn, inbox, srvIn, env, hist>>
    /\ UNCHANGED <<nc, fx, timer>>

\* ExecTimeout, had the timeout been treated as a fatal error.
ExecTimeoutFatal(p) ==
    /\ pc[p] = "wait"
    /\ Return(p, ErrTimeout)
    /\ done' = TRUE
    /\ hist' = [fatalError(hist) EXCEPT !.timedOut = @ \cup {cmd[p].id}]
    /\ UNCHANGED <<cmd, calls, whPc, mhPc, mhResp, buf, notify, notifyClosed,
                   closing, conn, inbox, srvIn, env>>
    /\ UNCHANGED <<nc, fx, timer>>

\* case <-time.After(c.timeout): return nil, ErrTimeout.
ExecTimeout(p) ==
    /\ pc[p] = "wait"
    /\ Return(p, ErrTimeout)
    /\ hist' = [hist EXCEPT !.timedOut = @ \cup {cmd[p].id}]
    /\ UNCHANGED <<cmd, calls, whPc, mhPc, mhResp, buf, notify, notifyClosed,
                   closing, done, conn, inbox, srvIn, env>>
    /\ UNCHANGED <<nc, fx, timer>>

\* IsConnected: false once done is closed.
IsConnected == ~done

\* --------------------------------------------------------------- Close
\* close(c.closing), then Exec("quit") reaches the first select of ExecCmd.
\* A goroutine may call Close again after its Close has returned.  Closing a
\* closed channel panics; the deferred c.wg.Wait() still runs.
Close(k) ==
    /\ pc[k] \in {"idle", "closed"}
    /\ IF closing
         THEN /\ pc' = [pc EXCEPT ![k] = "panicWait"]
              /\ UNCHANGED <<cmd, result, calls, closing>>
         ELSE /\ closing' = TRUE
              /\ pc' = [pc EXCEPT ![k] = "send"]
              /\ cmd' = [cmd EXCEPT ![k] = [id |-> <<k, calls[k] + 1>>, quit |-> TRUE,
                                        target |-> FALSE, afterClose |-> hist.closed,
                                        doneAtCall |-> done]]
              /\ result' = [result EXCEPT ![k] = NoResp]
              /\ calls' = [calls EXCEPT ![k] = @ + 1]
    /\ UNCHANGED <<whPc, mhPc, mhResp, buf, notify, notifyClosed,
                   done, conn, inbox, srvIn, env, hist>>
    /\ UNCHANGED <<nc, fx, timer>>

\* err2 := c.conn.Close(), after Exec("quit") has returned.
CloseConn(k) ==
    /\ pc[k] = "connClose"
    /\ conn' = [conn EXCEPT !.closed = TRUE]
    /\ pc' = [pc EXCEPT ![k] = "wgWait"]
    /\ UNCHANGED <<cmd, result, calls, whPc, mhPc, mhResp, buf, notify,
                   notifyClosed, closing, done, inbox, srvIn, env, hist>>
    /\ UNCHANGED <<nc, fx, timer>>

\* CloseWait, had Close not waited for the loops.
CloseNoWait(k) ==
    /\ pc[k] = "wgWait"
    /\ pc' = [pc EXCEPT ![k] = "closed"]
    /\ hist' = [hist EXCEPT !.closed = TRUE]
    /\ UNCHANGED <<cmd, result, calls, whPc, mhPc, mhResp, buf, notify,
                   notifyClosed, closing, done, conn, inbox, srvIn, env>>
    /\ UNCHANGED <<nc, fx, timer>>

\* CloseWait, had messageHandler not been counted in c.wg.
CloseWaitWorkOnly(k) ==
    /\ pc[k] = "wgWait"
    /\ whPc = "exited"
    /\ pc' = [pc EXCEPT ![k] = "closed"]
    /\ hist' = [hist EXCEPT !.closed = TRUE]
    /\ UNCHANGED <<cmd, result, calls, whPc, mhPc, mhResp, buf, notify,
                   notifyClosed, closing, done, conn, inbox, srvIn, env>>
    /\ UNCHANGED <<nc, fx, timer>>

\* defer c.wg.Wait(): Close returns once both loops have called wg.Done().
CloseWait(k) ==
    /\ pc[k] = "wgWait"
    /\ mhPc = "exited"
    /\ whPc = "exited"
    /\ pc' = [pc EXCEPT ![k] = "closed"]
    /\ hist' = [hist EXCEPT !.closed = TRUE]
    /\ UNCHANGED <<cmd, result, calls, whPc, mhPc, mhResp, buf, notify,
                   notifyClosed, closing, done, conn, inbox, srvIn, env>>
    /\ UNCHANGED <<nc, fx, timer>>

\* What Close returns: the error of Exec("quit") if there is one; closing an
\* open connection succeeds (err2 is nil or "connection reset by peer").
CloseReturn(k) == IF result[k].err # "nil" THEN result[k].err ELSE "nil"

\* The deferred c.wg.Wait() of a panicking Close returns and the panic
\* leaves Close: the program stops, and with it every goroutine.
ClosePanic(k) ==
    /\ pc[k] = "panicWait"
    /\ mhPc = "exited"
    /\ whPc = "exited"
    /\ pc' = [p \in Procs |-> "panicked"]
    /\ UNCHANGED <<cmd, result, calls, whPc, mhPc, mhResp, buf, notify,
                   notifyClosed, closing, done, conn, inbox, srvIn, env, hist>>
    /\ UNCHANGED <<nc, fx, timer>>

\* --------------------------------------------------------- workHandler
\* responseErr in workHandler: case <-t.C, nobody received the error; return.
WorkRespErrTimeout ==
    /\ whPc = "respErr"
    /\ whPc' = "exited"
    /\ UNCHANGED <<pc, cmd, result, calls, mhPc, mhResp, buf, notify,
                   notifyClosed, closing, done, conn, inbox, srvIn, env, hist>>
    /\ UNCHANGED <<nc, fx, timer>>

\* The interval of the keep-alive (option KeepAlive), in units of time.
keepAlive == 2

\* <-time.After(c.keepAlive) can be received: the timer has run for
\* c.keepAlive.
TimerFired == env.timed => timer.after = keepAlive

\* WorkKeepAlive, had a failed keep-alive write not been treated as fatal.
WorkKeepAliveNoFatal ==
    /\ whPc = "select"
    /\ ~done
    /\ TimerFired
    /\ timer' = NoTime
    /\ whPc' = IF writeFails THEN "exited" ELSE whPc
    /\ UNCHANGED <<pc, cmd, result, calls, mhPc, mhResp, buf, notify,
                   notifyClosed, closing, done, conn, inbox, srvIn, env, hist>>
    /\ UNCHANGED <<nc, fx>>

\* case <-time.After(c.keepAlive): c.write(keepAliveData), which the server
\* ignores.  On a write error fatalError closes done, nothing is sent on
\* c.response, and workHandler returns.  Otherwise the next pass of the loop
\* enters the select with a new timer.
WorkKeepAlive ==
    /\ whPc = "select"
    /\ ~done
    /\ TimerFired
    /\ timer' = NoTime
    /\ IF writeFails
         THEN /\ done' = TRUE
              /\ hist' = fatalError(hist)
              /\ whPc' = "exited"
         ELSE UNCHANGED <<done, hist, whPc>>
    /\ UNCHANGED <<pc, cmd, result, calls, mhPc, mhResp, buf, notify,
                   notifyClosed, closing, conn, inbox, srvIn, env>>
    /\ UNCHANGED <<nc, fx>>

\* case <-c.done: return.
WorkDone ==
    /\ whPc = "select"
    /\ done
    /\ whPc' = "exited"
    /\ UNCHANGED <<pc, cmd, result, calls, mhPc, mhResp, buf, notify,
                   notifyClosed, closing, done, conn, inbox, srvIn, env, hist>>
    /\ UNCHANGED <<nc, fx, timer>>

\* ------------------------------------------------------ messageHandler
\* LineKind, had a line with the prefix "notify" that decodeNotification
\* rejects been taken for a partial response.
LineKindBadNotifyPartial(line) == IF line.kind = "notifyBad" THEN "data" ELSE line.kind

\* LineKind, had a notification been taken for a partial response.
LineKindNotifyPartial(line) == IF line.kind = "notify" THEN "data" ELSE line.kind

\* What messageHandler takes a line for: "ok" ("error id=0 msg=ok"), "err"
\* (respTrailerRe matches), "notify" (prefix "notify", decoded), "notifyBad"
\* (prefix "notify", decodeNotification fails), "notifyBare" (prefix "notify"
\* and no space), or a partial response.
LineKind(line) == line.kind

\* NotifySend, had a full channel made room by giving up its oldest entry.
NotifySendOverwrite(q, line) ==
    IF Len(q) < notifyBufSize THEN Append(q, line) ELSE Append(Tail(q), line)

\* select { case c.notify <- n: default: }: the non-blocking send.
NotifySend(q, line) == IF Len(q) < notifyBufSize THEN Append(q, line) ELSE q

\* c.scanner.Scan() returned a line.
\*   "error id=0 msg=ok": the buffered lines become the response, buf is renewed;
\*   another trailer:     response{err: NewError(matches)}; buf is dropped
\*                        only after the send (see ExecRecv);
\*   "notify...":         non-blocking send on c.notify, dropped when it is full;
\*                        a line decodeNotification rejects is dropped; for a
\*                        line without a space decodeNotification panics in
\*                        parts[1], which ends the program and every goroutine;
\*   anything else:       a partial response, appended to buf.
\* Either send on c.response blocks until an ExecCmd call receives it.
\* Ghost: hist.dropped collects the numbers of the notifications dropped
\* because c.notify was full.
MessageScan ==
    /\ mhPc = "scan"
    /\ inbox # <<>>
    /\ LET line == Head(inbox)
           kind == LineKind(line) IN
         /\ inbox' = Tail(inbox)
         /\ CASE kind = "ok" ->
                   /\ mhResp' = [err |-> "nil", lines |-> buf, of |-> line.cmd]
                   /\ buf' = <<>>
                   /\ mhPc' = "sendResp"
                   /\ UNCHANGED notify
              [] kind = "err" ->
                   /\ mhResp' = [err |-> "proto", lines |-> <<>>, of |-> line.cmd]
                   /\ mhPc' = "sendResp"
                   /\ UNCHANGED <<buf, notify>>
              [] kind = "notify" ->
                   /\ notify' = NotifySend(notify, line)
                   /\ UNCHANGED <<mhPc, mhResp, buf>>
              [] kind = "notifyBad" ->
                   UNCHANGED <<mhPc, mhResp, buf, notify>>
              [] kind = "notifyBare" ->
                   /\ mhPc' = "panicked"
                   /\ UNCHANGED <<mhResp, buf, notify>>
              [] OTHER ->
                   /\ buf' = Append(buf, line)
                   /\ UNCHANGED <<mhPc, mhResp, notify>>
         /\ hist' = IF kind = "notify" /\ Len(notify) >= notifyBufSize
                      THEN [hist EXCEPT !.dropped = @ \cup {line.cmd[2]}]
                      ELSE hist
         /\ pc' = IF kind = "notifyBare" THEN [p \in Procs |-> "panicked"] ELSE pc
         /\ whPc' = IF kind = "notifyBare" THEN "panicked" ELSE whPc
    /\ UNCHANGED <<cmd, result, calls, notifyClosed, closing,
                   done, conn, srvIn, env>>
    /\ UNCHANGED <<nc, fx, timer>>

\* scanFails, had NewClient left the read deadline of the handshake in force:
\* a read also fails when no line arrives in time.
scanFailsDeadline == conn.closed \/ inbox = <<>>

\* A read fails once the client has closed the connection, or at the end of
\* the stream after the server has closed it.
scanFails == conn.closed \/ (conn.eof /\ inbox = <<>>)

\* MessageScanFail, had the read loop ended without telling anybody.
MessageScanFailSilent ==
    /\ mhPc = "scan"
    /\ scanFails
    /\ done' = TRUE
    /\ hist' = IF closing THEN closeDone(hist) ELSE fatalError(hist)
    /\ mhPc' = "exited"
    /\ notifyClosed' = TRUE
    /\ UNCHANGED <<pc, cmd, result, calls, whPc, mhResp, buf, notify,
                   closing, conn, inbox, srvIn, env>>
    /\ UNCHANGED <<nc, fx, timer>>

\* MessageScanFail, had scanErr not looked at c.closing.
MessageScanFailNoClosing ==
    /\ mhPc = "scan"
    /\ scanFails
    /\ done' = TRUE
    /\ hist' = fatalError(hist)
    /\ mhPc' = "respErr"
    /\ UNCHANGED <<pc, cmd, result, calls, whPc, mhResp, buf, notify, notifyClosed,
                   closing, conn, inbox, srvIn, env>>
    /\ UNCHANGED <<nc, fx, timer>>

\* MessageScanFail, had the read loop returned at an expected end of the
\* stream without closeDone.
MessageScanFailDoneOpen ==
    /\ mhPc = "scan"
    /\ scanFails
    /\ IF closing
         THEN /\ mhPc' = "exited"
              /\ notifyClosed' = TRUE
              /\ UNCHANGED <<done, hist>>
         ELSE /\ done' = TRUE
              /\ hist' = fatalError(hist)
              /\ mhPc' = "respErr"
              /\ UNCHANGED notifyClosed
    /\ UNCHANGED <<pc, cmd, result, calls, whPc, mhResp, buf, notify,
                   closing, conn, inbox, srvIn, env>>
    /\ UNCHANGED <<nc, fx, timer>>

\* c.scanner.Scan() returned false.  scanErr is nil when closing is closed:
\* closeDone and return.  Otherwise fatalError closes done and responseErr
\* offers the error on c.response.
MessageScanFail ==
    /\ mhPc = "scan"
    /\ scanFails
    /\ done' = TRUE
    /\ IF closing
         THEN /\ hist' = closeDone(hist)
              /\ mhPc' = "exited"
              /\ notifyClosed' = TRUE
         ELSE /\ hist' = fatalError(hist)
              /\ mhPc' = "respErr"
              /\ UNCHANGED notifyClosed
    /\ UNCHANGED <<pc, cmd, result, calls, whPc, mhResp, buf, notify,
                   closing, conn, inbox, srvIn, env>>
    /\ UNCHANGED <<nc, fx, timer>>

\* MessageRespErrTimeout, had messageHandler returned without close(c.notify).
MessageRespErrTimeoutNoClose ==
    /\ mhPc = "respErr"
    /\ mhPc' = "exited"
    /\ UNCHANGED <<pc, cmd, result, calls, whPc, mhResp, buf, notify, notifyClosed,
                   closing, done, conn, inbox, srvIn, env, hist>>
    /\ UNCHANGED <<nc, fx, timer>>

\* MessageRespErrTimeout, had responseErr sent on c.response without a timer.
MessageRespErrBlocks ==
    /\ mhPc = "respErr"
    /\ mhPc' = "respErr"
    /\ UNCHANGED <<pc, cmd, result, calls, whPc, mhResp, buf, notify, notifyClosed,
                   closing, done, conn, inbox, srvIn, env, hist>>
    /\ UNCHANGED <<nc, fx, timer>>

\* responseErr in messageHandler: case <-t.C; return: close(c.notify), wg.Done().
MessageRespErrTimeout ==
    /\ mhPc = "respErr"
    /\ mhPc' = "exited"
    /\ notifyClosed' = TRUE
    /\ UNCHANGED <<pc, cmd, result, calls, whPc, mhResp, buf, notify,
                   closing, done, conn, inbox, srvIn, env, hist>>
    /\ UNCHANGED <<nc, fx, timer>>

\* ---------------------------------------------------- server and network
Line(kind, id) == [kind |-> kind, cmd |-> id, no |-> 0]

\* The i-th data line of a response, and the trailer after n data lines
\* (ghost: field no holds i and n; all data lines read alike to the client).
DataLine(id, i) == [kind |-> "data", cmd |-> id, no |-> i]
Trailer(kind, id, n) == [kind |-> kind, cmd |-> id, no |-> n]

\* The lines of one response: n data lines and the trailer.
ResponseLines(id, n, trailer) ==
    [i \in 1..(n + 1) |-> IF i <= n THEN DataLine(id, i) ELSE Trailer(trailer, id, n)]

\* The lines of a response with a notification line put before the trailer.
NotifyBeforeTrailer(lines, note) ==
    SubSeq(lines, 1, Len(lines) - 1) \o <<note, lines[Len(lines)]>>

\* The server answers the oldest unanswered command; after answering quit it
\* closes the connection (mockserver: handle).  A notification may reach the
\* wire between the data lines and the trailer (ghost: it then carries the
\* caller of the command as well as its number).
ServerAnswer ==
    /\ srvIn # <<>>
    /\ ~conn.closed
    /\ ~conn.eof
    /\ LET c == Head(srvIn) IN
         \E n \in 0..env.lines, trailer \in {"ok", "err"}, m \in {0, 1} :
            /\ c.quit => (n = 0 /\ trailer = "ok" /\ m = 0)
            /\ m = 1 => env.notifies < MaxNotify
            /\ inbox' = inbox \o
                  IF m = 1
                    THEN NotifyBeforeTrailer(ResponseLines(c.id, n, trailer),
                                             Line("notify", <<c.id[1], env.notifies + 1>>))
                    ELSE ResponseLines(c.id, n, trailer)
            /\ env' = [env EXCEPT !.notifies = @ + m]
            /\ conn' = [conn EXCEPT !.eof = c.quit]
    /\ srvIn' = Tail(srvIn)
    /\ UNCHANGED <<pc, cmd, result, calls, whPc, mhPc, mhResp, buf, notify,
                   notifyClosed, closing, done, hist>>
    /\ UNCHANGED <<nc, fx, timer>>

\* The server reads a command it never answers (mockserver: an empty command).
ServerIgnore ==
    /\ srvIn # <<>>
    /\ ~conn.closed
    /\ ~conn.eof
    /\ srvIn' = Tail(srvIn)
    /\ UNCHANGED <<pc, cmd, result, calls, whPc, mhPc, mhResp, buf, notify,
                   notifyClosed, closing, done, conn, inbox, env, hist>>
    /\ UNCHANGED <<nc, fx, timer>>

\* The server closes the connection (mockserver: "disconnect", Close).
ServerHangup ==
    /\ ~conn.closed
    /\ ~conn.eof
    /\ env.events < MaxEvents
    /\ env' = [env EXCEPT !.events = @ + 1]
    /\ conn' = [conn EXCEPT !.eof = TRUE]
    /\ UNCHANGED <<pc, cmd, result, calls, whPc, mhPc, mhResp, buf, notify,
                   notifyClosed, closing, done, inbox, srvIn, hist>>
    /\ UNCHANGED <<nc, fx, timer>>

\* The kinds of notification lines a server sends: one that decodeNotification
\* accepts, one whose fields it rejects and, in the runs with env.bare, one
\* that is an event name and nothing else.
NotifyKinds == {"notify", "notifyBad"} \cup (IF env.bare THEN {"notifyBare"} ELSE {})

\* The server pushes a notification line, the n-th one (ghost: its number is
\* carried in field cmd).
ServerNotify ==
    /\ ~conn.closed
    /\ ~conn.eof
    /\ env.notifies < MaxNotify
    /\ env' = [env EXCEPT !.notifies = @ + 1]
    /\ \E kind \in NotifyKinds :
          inbox' = Append(inbox, Line(kind, <<0, env.notifies + 1>>))
    /\ UNCHANGED <<pc, cmd, result, calls, whPc, mhPc, mhResp, buf, notify,
                   notifyClosed, closing, done, conn, srvIn, hist>>
    /\ UNCHANGED <<nc, fx, timer>>

\* NotifyRecv, had a receive left the notification in the channel.
NotifyRecvStays ==
    /\ notify # <<>>
    /\ hist' = [hist EXCEPT !.lastNotif = Head(notify).cmd[2]]
    /\ UNCHANGED <<pc, cmd, result, calls, whPc, mhPc, mhResp, buf, notify,
                   notifyClosed, closing, done, conn, inbox, srvIn, env>>
    /\ UNCHANGED <<nc, fx, timer>>

\* The consumer of Notifications() receives the oldest buffered notification
\* (ghost: lastNotif is its number).
NotifyRecv ==
    /\ notify # <<>>
    /\ notify' = Tail(notify)
    /\ hist' = [hist EXCEPT !.lastNotif = Head(notify).cmd[2]]
    /\ UNCHANGED <<pc, cmd, result, calls, whPc, mhPc, mhResp, buf,
                   notifyClosed, closing, done, conn, inbox, srvIn, env>>
    /\ UNCHANGED <<nc, fx, timer>>

\* The server sends a trailer that answers no command.
ServerStray ==
    /\ ~conn.closed
    /\ ~conn.eof
    /\ env.events < MaxEvents
    /\ env' = [env EXCEPT !.events = @ + 1]
    /\ inbox' = Append(inbox, Line("ok", NoId))
    /\ hist' = [hist EXCEPT !.stray = TRUE]
    /\ UNCHANGED <<pc, cmd, result, calls, whPc, mhPc, mhResp, buf, notify,
                   notifyClosed, closing, done, conn, srvIn>>
    /\ UNCHANGED <<nc, fx, timer>>

\* Writes start to fail while reads still work (client_test: CloseWrite).
WriteBreaks ==
    /\ ~conn.writeBroken
    /\ ~conn.closed
    /\ env.events < MaxEvents
    /\ env' = [env EXCEPT !.events = @ + 1]
    /\ conn' = [conn EXCEPT !.writeBroken = TRUE]
    /\ UNCHANGED <<pc, cmd, result, calls, whPc, mhPc, mhResp, buf, notify,
                   notifyClosed, closing, done, inbox, srvIn, hist>>
    /\ UNCHANGED <<nc, fx, timer>>

\* ------------------------------------------------------- specification
Next ==
    \/ \E u \in Users : ExecStart(u)
    \/ \E p \in Procs : ExecSend(p)
    \/ \E p \in Procs : ExecNotConnected(p)
    \/ \E p \in Procs : ExecRecv(p)
    \/ \E p \in Procs : ExecRecvReadErr(p)
    \/ \E p \in Procs : ExecRecvWriteErr(p)
    \/ \E p \in Procs : ExecTimeout(p)
    \/ \E k \in Closers : Close(k)
    \/ \E k \in Closers : CloseConn(k)
    \/ \E k \in Closers : CloseWait(k)
    \/ \E k \in Closers : ClosePanic(k)
    \/ WorkRespErrTimeout
    \/ WorkKeepAlive
    \/ WorkDone
    \/ MessageScan
    \/ MessageScanFail
    \/ MessageRespErrTimeout
    \/ ServerAnswer
    \/ ServerIgnore
    \/ ServerHangup
    \/ ServerNotify
    \/ NotifyRecv
    \/ ServerStray
    \/ WriteBreaks

Spec == Init /\ [][Next]_vars

\* A step of the ExecCmd call of p: one of the cases of its two selects.
ExecStep(p) ==
    \/ ExecSend(p) \/ ExecNotConnected(p)
    \/ ExecRecv(p) \/ ExecRecvReadErr(p) \/ ExecRecvWriteErr(p) \/ ExecTimeout(p)

\* The runs with commands that carry a decode target.
DecodeInit == fx = NoFx /\ ClientStarted({DecodeBudget})

DecodeSpec == DecodeInit /\ [][Next]_vars

\* Fair scheduling of the callers: a goroutine whose select has a case that
\* stays ready (a timer that will fire counts as ready) takes a case.
\* Checked for the runs with one call of a user, the quit of Close and the
\* notifications.
FairInit == Init /\ env.notifies = 0

FairSpec == FairInit /\ [][Next]_vars /\ \A p \in Procs : WF_vars(ExecStep(p))

\* ------------------------------------------------- the loops, scheduled
MaxErrors == 2       \* failures of the network in the runs with several errors

\* The budget of the runs with several errors: one call of a user and the
\* quit of Close, one notification, and MaxErrors events (the counter of
\* events starts that far below MaxEvents).
ErrorsBudget ==
    [calls |-> MaxCalls - 1, events |-> MaxEvents - MaxErrors, notifies |-> MaxNotify - 1,
     lines |-> MaxData, decode |-> FALSE, timed |-> FALSE, bare |-> FALSE]

ErrorsInit == fx = NoFx /\ ClientStarted({ErrorsBudget})

\* The select of responseErr in messageHandler and in workHandler: the send
\* on c.response is taken by a caller, or the timer fires.
MessageRespErr == MessageRespErrTimeout \/ \E p \in Procs : ExecRecvReadErr(p)
WorkRespErr == WorkRespErrTimeout \/ \E p \in Procs : ExecRecvWriteErr(p)

\* Fair scheduling of the two loops in responseErr: the timer of
\* responseErrTimeout fires, so a loop that stays in that select takes a case.
ResponseErrSpec ==
    ErrorsInit /\ [][Next]_vars /\ WF_vars(MessageRespErr) /\ WF_vars(WorkRespErr)

\* ------------------------------------------------------ the keep-alive timer
\* A unit of time passes while workHandler waits in its select; once the
\* timer has run for c.keepAlive it fires and the select takes a case.
Tick ==
    /\ env.timed
    /\ whPc = "select"
    /\ timer.after < keepAlive
    /\ timer' = [after |-> timer.after + 1, idle |-> timer.idle + 1]
    /\ UNCHANGED <<pc, cmd, result, calls, whPc, mhPc, mhResp, buf, notify,
                   notifyClosed, closing, done, conn, inbox, srvIn, env, hist>>
    /\ UNCHANGED <<nc, fx>>

\* The budget of the runs that keep time: one call of a user, the quit of
\* Close, one notification.
TimedBudget ==
    [calls |-> MaxCalls - 1, events |-> 0, notifies |-> MaxNotify - 1,
     lines |-> MaxData, decode |-> FALSE, timed |-> TRUE, bare |-> FALSE]

TimedInit == fx = NoFx /\ ClientStarted({TimedBudget})

TimedNext == Next \/ Tick

TimedSpec == TimedInit /\ [][TimedNext]_vars

\* --------------------------------------------- notifications without fields
\* The budget of the runs in which a notification line may be an event name
\* and nothing else: one call of a user, the quit of Close, one notification.
BareBudget ==
    [calls |-> MaxCalls - 1, events |-> 0, notifies |-> MaxNotify - 1,
     lines |-> MaxData, decode |-> FALSE, timed |-> FALSE, bare |-> TRUE]

BareInit == fx = NoFx /\ ClientStarted({BareBudget})

BareSpec == BareInit /\ [][Next]_vars

\* ------------------------------------------------------------ NewClient
\* The first lines a server sends: a connect header or something else.
FirstLines == ConnectHeaders \cup {"bad"}

\* What the server writes when it accepts a connection: nothing, a first
\* line only, or a first line and the banner.
Greetings ==
    {<<>>} \cup {<<Line(h, NoId)>> : h \in FirstLines}
           \cup {<<Line(h, NoId), Banner>> : h \in FirstLines}

\* The state when NewClient is called: no client yet, no loop started; the
\* server has written its greeting, or has closed the connection instead.
NCInit ==
    /\ fx = NoFx
    /\ \E h \in ConnectHeaders : nc = [at |-> "connect", connectHeader |-> h, read |-> <<>>]
    /\ pc = [p \in Procs |-> "noClient"]
    /\ cmd = [p \in Procs |-> NoCmd]
    /\ result = [p \in Procs |-> NoResp]
    /\ calls = [p \in Procs |-> 0]
    /\ whPc = "notStarted"
    /\ mhPc = "notStarted"
    /\ mhResp = NoResp
    /\ buf = <<>>
    /\ notify = <<>>
    /\ notifyClosed = FALSE
    /\ closing = FALSE
    /\ done = FALSE
    /\ inbox \in Greetings
    /\ \E eof \in BOOLEAN :
          /\ eof => inbox = <<>>
          /\ conn = [closed |-> FALSE, writeBroken |-> FALSE, eof |-> eof]
    /\ srvIn = <<>>
    /\ env \in Budgets
    /\ timer = NoTime
    /\ hist = [timedOut |-> {}, fatal |-> FALSE, doneCloses |-> 0, stray |-> FALSE,
               closed |-> FALSE, failedWrite |-> NoId, lastNotif |-> 0,
               dropped |-> {}]

\* c.conn.Connect: the dial succeeds, or fails and NewClient returns the error.
NewClientConnect ==
    /\ UNCHANGED <<fx, timer>>
    /\ nc.at = "connect"
    /\ \E ok \in BOOLEAN : nc' = [nc EXCEPT !.at = IF ok THEN "header" ELSE "error"]
    /\ UNCHANGED <<pc, cmd, result, calls, whPc, mhPc, mhResp, buf, notify,
                   notifyClosed, closing, done, conn, inbox, srvIn, env, hist>>

\* NewClientHeader, had it taken any first line for the header.
NewClientHeaderAny ==
    /\ UNCHANGED <<fx, timer>>
    /\ nc.at = "header"
    /\ inbox # <<>>
    /\ inbox' = Tail(inbox)
    /\ nc' = [nc EXCEPT !.read = Append(@, Head(inbox)), !.at = "banner"]
    /\ UNCHANGED <<pc, cmd, result, calls, whPc, mhPc, mhResp, buf, notify,
                   notifyClosed, closing, done, conn, srvIn, env, hist>>

\* The first Scan returns a line: NewClient goes on to the banner if the line
\* is the connect header and returns an error otherwise.
NewClientHeader ==
    /\ UNCHANGED <<fx, timer>>
    /\ nc.at = "header"
    /\ inbox # <<>>
    /\ inbox' = Tail(inbox)
    /\ nc' = [nc EXCEPT !.read = Append(@, Head(inbox)),
                        !.at = IF Head(inbox).kind # nc.connectHeader
                               THEN "error" ELSE "banner"]
    /\ UNCHANGED <<pc, cmd, result, calls, whPc, mhPc, mhResp, buf, notify,
                   notifyClosed, closing, done, conn, srvIn, env, hist>>

\* The first or the second Scan fails: no line came before the deadline of
\* c.timeout, or the server closed the connection. NewClient returns the error.
NewClientScanFail ==
    /\ UNCHANGED <<fx, timer>>
    /\ nc.at \in {"header", "banner"}
    /\ inbox = <<>>
    /\ nc' = [nc EXCEPT !.at = "error"]
    /\ UNCHANGED <<pc, cmd, result, calls, whPc, mhPc, mhResp, buf, notify,
                   notifyClosed, closing, done, conn, inbox, srvIn, env, hist>>

\* NewClientBanner, had it started the loops without reading the banner.
NewClientBannerUnread ==
    /\ UNCHANGED <<fx, timer>>
    /\ nc.at = "banner"
    /\ nc' = [nc EXCEPT !.at = "ok"]
    /\ whPc' = "select"
    /\ mhPc' = "scan"
    /\ pc' = [p \in Procs |-> "idle"]
    /\ UNCHANGED <<cmd, result, calls, mhResp, buf, notify, notifyClosed,
                   closing, done, conn, inbox, srvIn, env, hist>>

\* The second Scan returns a line, the banner: NewClient starts messageHandler
\* and workHandler and returns the client.
NewClientBanner ==
    /\ UNCHANGED <<fx, timer>>
    /\ nc.at = "banner"
    /\ inbox # <<>>
    /\ inbox' = Tail(inbox)
    /\ nc' = [nc EXCEPT !.read = Append(@, Head(inbox)), !.at = "ok"]
    /\ whPc' = "select"
    /\ mhPc' = "scan"
    /\ pc' = [p \in Procs |-> "idle"]
    /\ UNCHANGED <<cmd, result, calls, mhResp, buf, notify, notifyClosed,
                   closing, done, conn, srvIn, env, hist>>

\* NewClient and what the server and the network do meanwhile.
NCNext ==
    \/ NewClientConnect
    \/ NewClientHeader
    \/ NewClientScanFail
    \/ NewClientBanner
    \/ ServerHangup
    \/ ServerNotify
    \/ ServerStray

NewClientSpec == NCInit /\ [][NCNext]_vars

\* ---------------------------------------------------------------- codec
\* A string is a sequence of characters; the control characters go by their
\* names.
Escapable == {"\\", "/", " ", "|", "BEL", "BS", "FF", "LF", "CR", "TAB", "VT"}

\* Characters without an escape, among them letters that end an escape.
Ordinary == {"s", "p", "x"}

MaxStrLen == 3

SeqsUpTo(S, n) == UNION {[1..k -> S] : k \in 0..n}

\* The state of the client, which no function of the codec touches.
clientVars == <<pc, cmd, result, calls, whPc, mhPc, mhResp, buf, notify,
                notifyClosed, closing, done, conn, inbox, srvIn, env, nc, timer, hist>>

\* encoder = strings.NewReplacer(...): the pairs in the order of the arguments.
encoder ==
    << <<"\\", <<"\\", "\\">> >>,
       <<"/", <<"\\", "/">> >>,
       <<" ", <<"\\", "s">> >>,
       <<"|", <<"\\", "p">> >>,
       <<"BEL", <<"\\", "a">> >>,
       <<"BS", <<"\\", "b">> >>,
       <<"FF", <<"\\", "f">> >>,
       <<"LF", <<"\\", "n">> >>,
       <<"CR", <<"\\", "r">> >>,
       <<"TAB", <<"\\", "t">> >>,
       <<"VT", <<"\\", "v">> >> >>

\* decoder = strings.NewReplacer(...).
decoder ==
    << << <<"\\", "\\">>, "\\" >>,
       << <<"\\", "/">>, "/" >>,
       << <<"\\", "s">>, " " >>,
       << <<"\\", "p">>, "|" >>,
       << <<"\\", "a">>, "BEL" >>,
       << <<"\\", "b">>, "BS" >>,
       << <<"\\", "f">>, "FF" >>,
       << <<"\\", "n">>, "LF" >>,
       << <<"\\", "r">>, "CR" >>,
       << <<"\\", "t">>, "TAB" >>,
       << <<"\\", "v">>, "VT" >> >>

IsPrefix(t, str) == Len(t) <= Len(str) /\ SubSeq(str, 1, Len(t)) = t

\* The pairs of a replacer whose old string starts str.
Matching(pairs, str) == {i \in DOMAIN pairs : IsPrefix(pairs[i][1], str)}

Min(S) == CHOOSE i \in S : \A j \in S : i <= j

\* Replacer.Replace: from left to right, without overlapping matches; where
\* several old strings match, the earliest argument wins.
RECURSIVE Replace(_, _)
Replace(pairs, str) ==
    IF str = <<>> THEN <<>>
    ELSE IF Matching(pairs, str) = {} THEN <<Head(str)>> \o Replace(pairs, Tail(str))
    ELSE LET pair == pairs[Min(Matching(pairs, str))] IN
           pair[2] \o Replace(pairs, SubSeq(str, Len(pair[1]) + 1, Len(str)))

\* One pass of ReplaceAll for each pair in turn, over the whole string.
RECURSIVE ReplaceInTurn(_, _)
ReplaceInTurn(pairs, str) ==
    IF pairs = <<>> THEN str
    ELSE ReplaceInTurn(Tail(pairs), Replace(<<Head(pairs)>>, str))

\* The encoder's old strings are characters, the decoder's new strings too.
EncoderPairs == [i \in DOMAIN encoder |-> << <<encoder[i][1]>>, encoder[i][2] >>]
DecoderPairs == [i \in DOMAIN decoder |-> << decoder[i][1], <<decoder[i][2]>> >>]

\* encoder.Replace(str), as Cmd and Arg apply it to a value.
Encode(str) == Replace(EncoderPairs, str)

\* Decode, had it undone the escapes one kind after the other.
DecodeInTurn(str) == ReplaceInTurn(DecoderPairs, str)

\* Decode returns a decoded version of str.
Decode(str) == Replace(DecoderPairs, str)

\* A value to send: any string of escapable and ordinary characters.
CodecInit ==
    /\ ClientStarted({DecodeBudget})
    /\ \E str \in SeqsUpTo(Escapable \cup Ordinary, MaxStrLen) :
          fx = [op |-> "value", in |-> str, out |-> <<>>]

\* The value is encoded for the wire.
EncodeValue ==
    /\ fx.op = "value"
    /\ fx' = [fx EXCEPT !.op = "encoded", !.out = Encode(fx.in)]
    /\ UNCHANGED clientVars

\* What came over the wire is decoded.
DecodeValue ==
    /\ fx.op = "encoded"
    /\ fx' = [fx EXCEPT !.op = "decoded", !.out = Decode(fx.out)]
    /\ UNCHANGED clientVars

CodecNext ==
    \/ EncodeValue
    \/ DecodeValue

CodecSpec == CodecInit /\ [][CodecNext]_vars

\* ------------------------------------------------------- DecodeResponse
\* The decimal digits; Digits[d + 1] is the digit of d.
Digits == <<"0", "1", "2", "3", "4", "5", "6", "7", "8", "9">>

IsDigit(c) == \E i \in DOMAIN Digits : Digits[i] = c

DigitVal(c) == (CHOOSE i \in DOMAIN Digits : Digits[i] = c) - 1

RECURSIVE NatOf(_)
NatOf(v) ==
    IF v = <<>> THEN 0
    ELSE NatOf(SubSeq(v, 1, Len(v) - 1)) * 10 + DigitVal(v[Len(v)])

\* strconv.Atoi: an optional sign and one or more digits, or an error.
Atoi(v) ==
    LET signed == v # <<>> /\ Head(v) \in {"+", "-"}
        digits == IF signed THEN Tail(v) ELSE v IN
      IF digits = <<>> \/ \E i \in DOMAIN digits : ~IsDigit(digits[i])
        THEN [ok |-> FALSE, n |-> 0]
        ELSE [ok |-> TRUE,
              n |-> IF signed /\ Head(v) = "-" THEN 0 - NatOf(digits) ELSE NatOf(digits)]

\* strconv.Itoa, which is how mapstructure turns an int into a string.
RECURSIVE Itoa(_)
Itoa(n) ==
    IF n < 0 THEN <<"-">> \o Itoa(0 - n)
    ELSE IF n < 10 THEN <<Digits[n + 1]>>
    ELSE Itoa(n \div 10) \o <<Digits[(n % 10) + 1]>>

\* The positions of sep in str.
Positions(str, sep) == {i \in DOMAIN str : str[i] = sep}

\* strings.Split(str, sep) for a separator of one character.
RECURSIVE Split(_, _)
Split(str, sep) ==
    IF Positions(str, sep) = {} THEN <<str>>
    ELSE LET i == Min(Positions(str, sep)) IN
           <<SubSeq(str, 1, i - 1)>> \o Split(SubSeq(str, i + 1, Len(str)), sep)

\* strings.SplitN(str, sep, 2).
SplitN2(str, sep) ==
    IF Positions(str, sep) = {} THEN <<str>>
    ELSE LET i == Min(Positions(str, sep)) IN
           <<SubSeq(str, 1, i - 1), SubSeq(str, i + 1, Len(str))>>

\* The values DecodeResponse puts into its input map.
IntV(n) == [t |-> "int", v |-> n]
StrV(str) == [t |-> "string", v |-> str]
IntsV(l) == [t |-> "ints", v |-> l]

\* An empty map[string]interface{}.
EmptyMap == [k \in {} |-> StrV(<<>>)]

\* input[key] = v
Put(input, key, v) ==
    [k \in DOMAIN input \cup {key} |-> IF k = key THEN v ELSE input[k]]

\* The key client_servergroups, written as one character.
ServerGroupsKey == <<"G">>

\* The value of one token "key=value" or "key" (part_007:73-99); err if a
\* server group is no number.
FieldValue(val) ==
    LET parts == SplitN2(val, "=")
        key == Decode(parts[1]) IN
      IF Len(parts) = 2
        THEN LET v == Decode(parts[2])
                 i == Atoi(v) IN
               IF i.ok THEN [err |-> FALSE, key |-> key, v |-> IntV(i.n)]
               ELSE IF key = ServerGroupsKey
                 THEN LET groups == Split(v, ",") IN
                        IF \E j \in DOMAIN groups : ~Atoi(groups[j]).ok
                          THEN [err |-> TRUE, key |-> key, v |-> StrV(v)]
                          ELSE [err |-> FALSE, key |-> key,
                                v |-> IntsV([j \in DOMAIN groups |-> Atoi(groups[j]).n])]
               ELSE [err |-> FALSE, key |-> key, v |-> StrV(v)]
        ELSE [err |-> FALSE, key |-> key, v |-> StrV(<<>>)]

\* The inner loop of DecodeResponse over the tokens of one record: the input
\* map with the record's fields put into it.
RECURSIVE ParseRecord(_, _)
ParseRecord(vals, input) ==
    IF vals = <<>> THEN [err |-> FALSE, input |-> input]
    ELSE LET f == FieldValue(Head(vals)) IN
           IF f.err THEN [err |-> TRUE, input |-> input]
           ELSE ParseRecord(Tail(vals), Put(input, f.key, f.v))

\* A time.Time: the zero value, or time.Unix(unix, 0).
ZeroTime == [set |-> FALSE, unix |-> 0]
UnixTime(n) == [set |-> TRUE, unix |-> n]

\* A struct with an int, a string and a time.Time field, tagged ms:"a",
\* ms:"s" and ms:"t" (as DBClient is), at its zero value.
ZeroStruct == [a |-> 0, s |-> <<>>, t |-> ZeroTime]

\* timeHookFunc for a time.Time field: the time for a positive number; the
\* data as it came for a number that is not positive and for data that is
\* neither int nor string; an error for a string that is no number.
timeHookFunc(data) ==
    CASE data.t = "int" ->
            IF data.v > 0 THEN [err |-> FALSE, time |-> TRUE, v |-> UnixTime(data.v)]
                          ELSE [err |-> FALSE, time |-> FALSE, v |-> data]
      [] data.t = "string" ->
            IF ~Atoi(data.v).ok THEN [err |-> TRUE, time |-> FALSE, v |-> data]
            ELSE IF Atoi(data.v).n > 0
              THEN [err |-> FALSE, time |-> TRUE, v |-> UnixTime(Atoi(data.v).n)]
              ELSE [err |-> FALSE, time |-> FALSE, v |-> data]
      [] OTHER -> [err |-> FALSE, time |-> FALSE, v |-> data]

\* mapstructure's decoding of one value into a field of the given type, with
\* WeaklyTypedInput and the hook: a time.Time field takes a time.Time only,
\* an int field a number or a string that is one, a string field a number or
\* a string.
DecodeField(type, data, old) ==
    CASE type = "time" ->
            LET h == timeHookFunc(data) IN
              IF h.err \/ ~h.time THEN [err |-> TRUE, v |-> old]
                                  ELSE [err |-> FALSE, v |-> h.v]
      [] type = "int" ->
            CASE data.t = "int" -> [err |-> FALSE, v |-> data.v]
              [] data.t = "string" /\ data.v = <<>> -> [err |-> FALSE, v |-> 0]
              [] data.t = "string" /\ Atoi(data.v).ok -> [err |-> FALSE, v |-> Atoi(data.v).n]
              [] OTHER -> [err |-> TRUE, v |-> old]
      [] OTHER ->
            CASE data.t = "int" -> [err |-> FALSE, v |-> Itoa(data.v)]
              [] data.t = "string" -> [err |-> FALSE, v |-> data.v]
              [] OTHER -> [err |-> TRUE, v |-> old]

\* The types of the fields of the struct, by tag.
FieldTypes == [a |-> "int", s |-> "string", t |-> "time"]

\* The value of the field tagged f after decodeMap(input, r).
FieldAfter(input, r, f) ==
    IF <<f>> \in DOMAIN input THEN DecodeField(FieldTypes[f], input[<<f>>], r[f])
                             ELSE [err |-> FALSE, v |-> r[f]]

\* decodeMap(d, r) for r a pointer to the struct: every field whose tag is a
\* key of d is decoded from its value, the other keys are ignored.
decodeMapStruct(input, r) ==
    [err |-> \E f \in DOMAIN FieldTypes : FieldAfter(input, r, f).err,
     val |-> [f \in DOMAIN FieldTypes |-> FieldAfter(input, r, f).v]]

\* decodeMap(d, r) for r a pointer to a map[string]string.
decodeMapStrings(input, r) ==
    [err |-> \E k \in DOMAIN input : DecodeField("string", input[k], <<>>).err,
     val |-> [k \in DOMAIN r \cup DOMAIN input |->
                 IF k \in DOMAIN input THEN DecodeField("string", input[k], <<>>).v
                                       ELSE r[k]]]

\* DecodeIntoSlice with the input map handed on from record to record.
RECURSIVE DecodeIntoSliceCarry(_, _, _)
DecodeIntoSliceCarry(parts, slice, input) ==
    IF parts = <<>> THEN [err |-> FALSE, val |-> slice]
    ELSE LET rec == ParseRecord(Split(Head(parts), " "), input)
             elem == decodeMapStruct(rec.input, ZeroStruct) IN
           IF rec.err \/ elem.err THEN [err |-> TRUE, val |-> slice]
           ELSE DecodeIntoSliceCarry(Tail(parts), Append(slice, elem.val), rec.input)

\* DecodeIntoSlice, had the input map not been reset after each record.
DecodeIntoSliceKeep(parts, slice) == DecodeIntoSliceCarry(parts, slice, EmptyMap)

\* DecodeResponse for a slice target, from the record at the head of parts
\* on: decodeSlice appends one element per record, decoded from an input map
\* that holds the fields of that record only.
RECURSIVE DecodeIntoSlice(_, _)
DecodeIntoSlice(parts, slice) ==
    IF parts = <<>> THEN [err |-> FALSE, val |-> slice]
    ELSE LET rec == ParseRecord(Split(Head(parts), " "), EmptyMap)
             elem == decodeMapStruct(rec.input, ZeroStruct) IN
           IF rec.err \/ elem.err THEN [err |-> TRUE, val |-> slice]
           ELSE DecodeIntoSlice(Tail(parts), Append(slice, elem.val))

\* DecodeResponse for another target: the outer loop, which puts the fields
\* of every record into the one input map.
RECURSIVE ParseRecords(_, _)
ParseRecords(parts, input) ==
    IF parts = <<>> THEN [err |-> FALSE, input |-> input]
    ELSE LET rec == ParseRecord(Split(Head(parts), " "), input) IN
           IF rec.err THEN rec ELSE ParseRecords(Tail(parts), rec.input)

\* DecodeResponse(lines, v) for one line and a target of the given kind
\* ("slice", "struct" or "map") holding v.
DecodeResponseInto(line, kind, v) ==
    LET parts == Split(line, "|") IN
      IF kind = "slice" THEN DecodeIntoSlice(parts, v)
      ELSE LET all == ParseRecords(parts, EmptyMap) IN
             IF all.err THEN [err |-> TRUE, val |-> v]
             ELSE IF kind = "struct" THEN decodeMapStruct(all.input, v)
             ELSE decodeMapStrings(all.input, v)

\* strings.Join(strs, sep) for a separator of one character.
RECURSIVE Join(_, _)
Join(strs, sep) ==
    IF strs = <<>> THEN <<>>
    ELSE IF Len(strs) = 1 THEN strs[1]
    ELSE strs[1] \o <<sep>> \o Join(Tail(strs), sep)

MaxRecords == 3
MaxFields == 2

\* The tokens of the response lines decoded: a number, a word and a number
\* with a leading zero for the fields a and s, and seconds for the field t.
Tokens ==
    {<<"a", "=", "1">>, <<"a", "=", "x">>, <<"s", "=", "0", "1">>,
     <<"t", "=", "0">>, <<"t", "=", "7">>}

\* The records: one to MaxFields tokens, separated by spaces.
Records == {Join(r, " ") : r \in SeqsUpTo(Tokens, MaxFields) \ {<<>>}}

\* The lines: one to MaxRecords records, separated by pipes.
Lines == {Join(l, "|") : l \in SeqsUpTo(Records, MaxRecords) \ {<<>>}}

\* The targets: a pointer to a struct, or to a slice that is empty or holds
\* an element already.
DecodeTargets ==
    {[kind |-> "struct", v |-> ZeroStruct],
     [kind |-> "slice", v |-> <<>>],
     [kind |-> "slice", v |-> <<[a |-> 1, s |-> <<"x">>, t |-> UnixTime(7)]>>]}

ResponseInit ==
    /\ ClientStarted({DecodeBudget})
    /\ \E line \in Lines, target \in DecodeTargets :
          fx = [op |-> "line", in |-> [line |-> line, target |-> target],
                out |-> [err |-> FALSE, val |-> target.v]]

\* DecodeResponse([]string{line}, v).
DecodeLine ==
    /\ fx.op = "line"
    /\ fx' = [fx EXCEPT !.op = "response",
                        !.out = DecodeResponseInto(fx.in.line, fx.in.target.kind,
                                                   fx.in.target.v)]
    /\ UNCHANGED clientVars

ResponseNext == DecodeLine

ResponseSpec == ResponseInit /\ [][ResponseNext]_vars

\* ---------------------------------------------------- decodeNotification
\* The word notify, written as one character.
NotifyPrefix == "notify"

\* strings.TrimPrefix(str, "notify").
TrimPrefix(str) == IF str # <<>> /\ Head(str) = NotifyPrefix THEN Tail(str) ELSE str

\* decodeNotification(str): the type is the first word without its prefix, the
\* data what DecodeResponse makes of the rest of the line for a
\* *map[string]string.  parts[1] does not exist for a line without a space:
\* the index panics.
decodeNotification(str) ==
    LET parts == SplitN2(str, " ") IN
      IF Len(parts) < 2
        THEN [panic |-> TRUE, err |-> FALSE, type |-> TrimPrefix(parts[1]), data |-> EmptyMap]
        ELSE LET r == DecodeResponseInto(parts[2], "map", EmptyMap) IN
               [panic |-> FALSE, err |-> r.err, type |-> TrimPrefix(parts[1]),
                data |-> r.val]

MaxNotifyFields == 3

\* The fields of the notification lines decoded: a number with a leading zero,
\* a value with a second =, a bare token, an escaped space, server groups.
NotifyTokens ==
    {<<"s", "=", "0", "1">>, <<"u", "=", "x", "=">>, <<"f">>,
     <<"m", "=", "x", "\\", "s", "x">>, <<"G", "=", "6", ",", "8">>, <<"a", "=", "1">>}

\* The notification lines: the type and up to MaxNotifyFields fields.
NotifyLines ==
    {Join(<< <<NotifyPrefix, "x">> >> \o l, " ") : l \in SeqsUpTo(NotifyTokens, MaxNotifyFields)}

NotificationInit ==
    /\ ClientStarted({DecodeBudget})
    /\ \E line \in NotifyLines :
          fx = [op |-> "notify line", in |-> line,
                out |-> [panic |-> FALSE, err |-> FALSE, type |-> <<>>, data |-> EmptyMap]]

\* messageHandler calls decodeNotification(line).
DecodeNotification ==
    /\ fx.op = "notify line"
    /\ fx' = [fx EXCEPT !.op = "notification", !.out = decodeNotification(fx.in)]
    /\ UNCHANGED clientVars

NotificationNext == DecodeNotification

NotificationSpec == NotificationInit /\ [][NotificationNext]_vars

\* ------------------------------------------------ the lines of a response
\* The words error, id= and msg= are written as one character each.
\* line == "error id=0 msg=ok".
okTrailer == <<"error", " ", "id=", "0", " ", "msg=", "o", "k">>

\* The part of str before the first of the positions in others: the longest
\* run a greedy group takes when others are the characters outside its class.
Run(str, others) == IF others = {} THEN str ELSE SubSeq(str, 1, Min(others) - 1)

\* The positions of str that hold no digit, and those that hold a space.
NonDigits(str) == {i \in DOMAIN str : ~IsDigit(str[i])}
Spaces(str) == Positions(str, " ")

Drop(str, n) == SubSeq(str, n + 1, Len(str))

\* respTrailerRe.FindStringSubmatch(line) for `^error id=(\d+) msg=([^ ]+)(.*)`:
\* the id, the message and the rest, or no match.  Both groups are greedy and
\* what follows each of them cannot begin inside it, so the longest run is
\* the only candidate.
respTrailerRe(line) ==
    LET id == Run(Drop(line, 3), NonDigits(Drop(line, 3)))
        afterId == Drop(line, 3 + Len(id))
        msg == Run(Drop(afterId, 2), Spaces(Drop(afterId, 2))) IN
      IF /\ IsPrefix(<<"error", " ", "id=">>, line)
         /\ id # <<>>
         /\ IsPrefix(<<" ", "msg=">>, afterId)
         /\ msg # <<>>
        THEN [matched |-> TRUE, id |-> id, msg |-> msg,
              rest |-> Drop(afterId, 2 + Len(msg))]
        ELSE [matched |-> FALSE, id |-> <<>>, msg |-> <<>>, rest |-> <<>>]

\* The if-chain of messageHandler on the text of a line: the success trailer,
\* another trailer, a notification, a partial response.
TextKind(line) ==
    IF line = okTrailer THEN "ok"
    ELSE IF respTrailerRe(line).matched THEN "err"
    ELSE IF line # <<>> /\ Head(line) = "notify" THEN "notify"
    ELSE "data"

\* The parts the lines received are made of: how a line begins, the digits
\* of an id, what stands before the message, the message, and the rest.
LineStarts == {<<"error", " ", "id=">>, <<"error", "id=">>, <<"x", " ", "id=">>, <<"notify", "x", " ", "id=">>}
LineIds == {<<>>, <<"0">>, <<"1">>, <<"0", "0">>, <<"1", "0">>, <<"x">>}
LineSeps == {<<" ", "msg=">>, <<"msg=">>}
LineMsgs == {<<>>, <<"o", "k">>, <<"x">>}
LineRests == {<<>>, <<" ">>, <<" ", "x", "=", "1">>}

TrailerLines ==
    {a \o b \o c \o d \o e :
        a \in LineStarts, b \in LineIds, c \in LineSeps, d \in LineMsgs, e \in LineRests}

LineInit ==
    /\ ClientStarted({DecodeBudget})
    /\ \E line \in TrailerLines : fx = [op |-> "received", in |-> line, out |-> "none"]

\* messageHandler decides what the line it scanned is.
ClassifyLine ==
    /\ fx.op = "received"
    /\ fx' = [fx EXCEPT !.op = "classified", !.out = TextKind(fx.in)]
    /\ UNCHANGED clientVars

LineNext == ClassifyLine

LineSpec == LineInit /\ [][LineNext]_vars

TypeOK ==
    /\ pc \in [Procs -> {"noClient", "idle", "send", "wait", "connClose", "wgWait",
                         "closed", "panicWait", "panicked"}]
    /\ whPc \in {"notStarted", "select", "respErr", "exited", "panicked"}
    /\ mhPc \in {"notStarted", "scan", "sendResp", "respErr", "exited", "panicked"}
    /\ nc.at \in {"connect", "header", "banner", "ok", "error"}
    /\ nc.connectHeader \in ConnectHeaders
    /\ Len(notify) <= notifyBufSize

\* ---------------------------------------------------------------- claims
\* The callers whose command has been handed to workHandler and whose
\* ExecCmd has not returned.
InFlight == {p \in Procs : pc[p] = "wait"}

\* ExecCmd of p has returned what messageHandler made of a trailer.
GotResponse(p) == pc[p] # "wait" /\ result[p].err \in {"nil", "proto"}

\* The commands whose lines or trailer make up the result of p.
Sources(p) == {result[p].of} \cup {result[p].lines[i].cmd : i \in DOMAIN result[p].lines}

\* C1: at most one command is in flight: while the ExecCmd call whose command
\* was handed to workHandler has not returned, no other caller's command is
\* handed over.
C1_OneInFlight == Cardinality(InFlight) <= 1

\* C2: with a server that answers the commands in the order received (no
\* trailer without a command) and no call timing out, every caller that gets
\* a response gets the lines and the trailer of its own command.
C2_OwnResponse ==
    (hist.timedOut = {} /\ ~hist.stray) =>
        \A p \in Procs : GotResponse(p) => Sources(p) = {cmd[p].id}

\* C3: the response to a command whose ExecCmd returned ErrTimeout is
\* discarded: no later ExecCmd call returns any of its lines or its trailer.
\* Stated for the calls of one caller, which are made one after the other.
C3_LateDiscarded ==
    \A p \in Procs : GotResponse(p) =>
        \A id \in Sources(p) \cap hist.timedOut : id[1] # p

\* C4: a call that stops waiting without having received anything returns
\* ErrTimeout, and that step leaves done, closing, both loops, the
\* connection and the notification channel as they were; so a client that
\* was connected and accepting commands still is.
C4_TimeoutKeepsConnection ==
    [][\A p \in Procs :
          (pc[p] = "wait" /\ pc'[p] \notin {"wait", "panicked"}
             /\ mhPc' = mhPc /\ whPc' = whPc)
          => /\ result'[p] = ErrTimeout
             /\ UNCHANGED <<done, closing, conn, notifyClosed, mhResp, buf,
                            inbox, srvIn>>]_vars

\* C4 witness: the first call of a user timed out; the client is still
\* connected, both loops run, and the user's next command has been accepted.
C4_Witness ==
    \E u \in Users :
        /\ <<u, 1>> \in hist.timedOut
        /\ cmd[u].id = <<u, 2>>
        /\ pc[u] = "wait"
        /\ ~done /\ ~closing /\ ~conn.closed
        /\ mhPc = "scan" /\ whPc = "select"

\* The loops that offer the terminal error on c.response (responseErr).
Offers == (IF mhPc = "respErr" THEN 1 ELSE 0) + (IF whPc = "respErr" THEN 1 ELSE 0)

\* C5: once a fatal error has closed done, every call that waits for a
\* response is offered the terminal error at once, and a call at its first
\* select can only return ErrNotConnected.
C5_FatalCancelsAll ==
    (hist.fatal /\ done) =>
        /\ Cardinality(InFlight) <= Offers
        /\ \A p \in Procs : pc[p] = "send" =>
              (ENABLED ExecNotConnected(p) /\ ~ENABLED ExecSend(p))

\* C6: once closing or done is closed, the command of a user's ExecCmd call
\* is not handed to workHandler: a call at its first select cannot hand it
\* over.
C6_NoAcceptAfterClose ==
    (closing \/ done) => \A u \in Users : pc[u] = "send" => ~ENABLED ExecSend(u)

\* C7: an ExecCmd call made after Close has returned is never handed to
\* workHandler; at its first select it can return ErrNotConnected at once
\* and do nothing else, and ErrNotConnected is what it returns.
C7_AfterCloseNotConnected ==
    \A u \in Users : cmd[u].afterClose =>
        /\ pc[u] \in {"send", "idle", "panicked"}
        /\ pc[u] = "send" => (ENABLED ExecNotConnected(u) /\ ~ENABLED ExecSend(u))
        /\ pc[u] = "idle" => result[u] = ErrNotConnected

\* C7 witness: a call made after Close had returned has returned ErrNotConnected.
C7_Witness ==
    \E u \in Users : cmd[u].afterClose /\ pc[u] = "idle" /\ result[u] = ErrNotConnected

\* C8: no call of Close panics.
C8_CloseTwiceSafe == \A k \in Closers : pc[k] \notin {"panicWait", "panicked"}

\* A step of the client itself: of a call in progress, of Close or of a loop.
ClientStep ==
    \/ \E p \in Procs : ExecSend(p) \/ ExecNotConnected(p) \/ ExecRecv(p)
                        \/ ExecRecvReadErr(p) \/ ExecRecvWriteErr(p) \/ ExecTimeout(p)
    \/ \E k \in Closers : CloseConn(k) \/ CloseWait(k)
    \/ WorkRespErrTimeout \/ WorkDone \/ (WorkKeepAlive /\ whPc' # whPc)
    \/ MessageScan \/ MessageScanFail \/ MessageRespErrTimeout

\* A Close that has closed c.closing and has not returned.
Closing(k) == pc[k] \in {"send", "wait", "connClose", "wgWait"}

\* C9: a Close in progress eventually returns; in particular the client is
\* never stuck while a Close is in progress.
C9_CloseNeverStuck == \A k \in Closers : Closing(k) => ENABLED ClientStep

\* C10: when Close has returned, both loops have terminated and the
\* connection is closed.
C10_CloseReturnsAfterLoops ==
    \A k \in Closers : pc[k] = "closed" =>
        (mhPc = "exited" /\ whPc = "exited" /\ conn.closed /\ notifyClosed)

\* C10 witness: Close has returned after quit was answered.
C10_Witness ==
    \E k \in Closers : pc[k] = "closed" /\ result[k].err = "nil" /\ result[k].of = cmd[k].id

\* A Close whose Exec("quit") has returned.
QuitReturned(k) == pc[k] \in {"connClose", "wgWait", "closed"}

\* Nothing but the Close itself has used the connection: no other call was
\* made, nothing failed or arrived unrequested, and quit did not time out.
QuietClose ==
    /\ \A u \in Users : calls[u] = 0
    /\ env.events = 0 /\ hist.timedOut = {} /\ ~hist.stray

C12_ReadErrorFatal ==
    [][/\ (mhPc = "scan" /\ mhPc' \notin {"scan", "sendResp"} /\ ~closing)
           => (~IsConnected' /\ hist'.fatal /\ mhPc' = "respErr")
       /\ mhPc = "respErr" => (~IsConnected /\ mhPc' \in {"respErr", "exited"})
       /\ \A p \in Procs :
             (mhPc = "respErr" /\ mhPc' = "exited" /\ pc[p] = "wait"
                /\ pc'[p] \notin {"wait", "panicked"})
             => result'[p] = ErrIO]_vars

\* C12 witness: the server closed the connection, Close was not called and
\* no write failed; a waiting call returned the read error and the read
\* loop has terminated.
C12_Witness ==
    /\ mhPc = "exited" /\ ~closing /\ ~IsConnected /\ hist.fatal
    /\ conn.eof /\ ~conn.writeBroken /\ ~conn.closed
    /\ \E u \in Users : pc[u] = "idle" /\ result[u] = ErrIO

\* The ExecCmd call of p has returned (its goroutine was not stopped by a panic).
ExecReturned(p) == pc[p] \notin {"send", "wait", "panicked"}

\* C13: the ExecCmd call that submitted a command whose write failed
\* returns a non-nil error.
C13_WriteErrorReturned ==
    \A p \in Procs :
        (cmd[p].id = hist.failedWrite /\ ExecReturned(p)) => result[p].err # "nil"

\* An ExecCmd call of p is in progress.
ExecInProgress(p) == pc[p] \in {"send", "wait"}

NotifyFull ==
    /\ mhPc = "scan" /\ inbox # <<>>
    /\ LineKind(Head(inbox)) = "notify" /\ Len(notify) >= notifyBufSize

\* C15: a notification line that arrives while c.notify holds its full
\* capacity is dropped: the read loop can take it at once, and taking it
\* leaves the channel as it was, raises no error (done, c.response and the
\* callers are untouched) and leaves the loop at its next read.
C15_FullNotifyDropped ==
    [][/\ NotifyFull => ENABLED MessageScan
       /\ (NotifyFull /\ inbox' = Tail(inbox))
             => /\ mhPc' = "scan"
                /\ UNCHANGED <<notify, notifyClosed, done, buf, mhResp, pc, result>>
                /\ hist'.fatal = hist.fatal]_vars

\* C15 witness: a notification was dropped because the channel was full, and
\* the read loop is reading on.
C15_Witness ==
    /\ hist.dropped # {} /\ Len(notify) = notifyBufSize
    /\ mhPc = "scan" /\ ~done

\* A line that begins with "notify".
IsNotifyLine(line) == line.kind \in {"notify", "notifyBad", "notifyBare"}

\* C16: a line that begins with "notify" is never among the lines that
\* messageHandler buffers or sends as a response, nor among the lines an
\* ExecCmd call returns.
C16_NotifyNotInResponse ==
    /\ \A i \in DOMAIN buf : ~IsNotifyLine(buf[i])
    /\ \A i \in DOMAIN mhResp.lines : ~IsNotifyLine(mhResp.lines[i])
    /\ \A p \in Procs : \A i \in DOMAIN result[p].lines : ~IsNotifyLine(result[p].lines[i])

\* C16 witness: a notification arrived between the data line and the
\* trailer of a user's response; the call returned the data line alone and
\* the notification is in the channel.
C16_Witness ==
    \E u \in Users :
        /\ pc[u] = "idle" /\ result[u].err = "nil" /\ Len(result[u].lines) = 1
        /\ notify # <<>> /\ Head(notify).cmd[1] = u

C18_NotifyClosedOnce ==
    [][/\ (notifyClosed' /\ ~notifyClosed) <=> (mhPc' = "exited" /\ mhPc # "exited")
       /\ mhPc = "exited" => mhPc' = "exited"
       /\ notifyClosed => /\ notifyClosed'
                          /\ notify' = notify \/ (notify # <<>> /\ notify' = Tail(notify))]_vars

\* C18 witness: the read loop has terminated and closed c.notify while a
\* notification was still buffered.
C18_Witness == notifyClosed /\ mhPc = "exited" /\ notify # <<>>

\* C19: once done is closed IsConnected is false for good: no step makes
\* it true again, and c.done is never closed a second time by any of the
\* calls of closeDone.
C19_DoneIrreversible ==
    [][/\ ~IsConnected => ~IsConnected'
       /\ hist'.doneCloses <= 1]_vars

\* C19 witness: the write loop failed fatally and the read loop ended as
\* well, so closeDone was called by both; done was closed once and
\* IsConnected is false.
C19_Witness ==
    /\ ~IsConnected /\ hist.doneCloses = 1
    /\ hist.failedWrite # NoId /\ mhPc = "exited" /\ whPc = "exited"

\* NewClient has returned the client.
ClientReturned == nc.at = "ok"

\* A loop runs or has run.
LoopStarted == whPc # "notStarted" \/ mhPc # "notStarted"

\* C20: NewClient returns a client only if the first line read equals the
\* configured connect header and a second line, the banner, was read; when the
\* first line differs, or no first or no second line comes, the step NewClient
\* takes makes it return an error; and unless it returns the client neither
\* loop is started, nor can any caller use a client.
C20_NewClientHandshake ==
    [][/\ ClientReturned' =>
              /\ Len(nc'.read) = 2
              /\ nc'.read[1].kind = nc'.connectHeader
       /\ ~ClientReturned' =>
              /\ ~LoopStarted'
              /\ \A p \in Procs : pc'[p] = "noClient"
       /\ (nc.at = "header" /\ nc' # nc
              /\ (inbox = <<>> \/ Head(inbox).kind # nc.connectHeader)) =>
              nc'.at = "error"
       /\ (nc.at = "banner" /\ nc' # nc /\ inbox = <<>>) => nc'.at = "error"
       /\ nc.at = "error" => nc' = nc]_vars

C20_Witness ==
    /\ nc.at = "error"
    /\ nc.connectHeader = "TS3 Client"
    /\ Len(nc.read) = 1
    /\ nc.read[1].kind = "TS3"
    /\ ~LoopStarted

\* The ExecCmd call of p receives the response messageHandler made of an error
\* trailer with a nonzero id.
RecvErrorTrailer(p) ==
    /\ pc[p] = "wait"
    /\ mhPc = "sendResp"
    /\ mhResp.err = "proto"
    /\ pc'[p] # "wait"
    /\ mhPc' # "sendResp"

\* C21: an error trailer with a nonzero id makes the ExecCmd call that
\* receives it return the protocol error without lines, and leaves the
\* connection as usable as it was: reading the trailer and handing it over
\* close neither done nor the notification channel and end neither loop, the
\* read loop is back at its Scan with an empty buffer, and the caller can make
\* its next call.
C21_ErrorTrailerNotFatal ==
    [][/\ (mhPc = "scan" /\ mhPc' = "sendResp" /\ mhResp'.err = "proto") =>
              /\ UNCHANGED <<done, whPc, notifyClosed, closing, conn, pc, result>>
              /\ hist'.fatal = hist.fatal
       /\ \A p \in Procs : RecvErrorTrailer(p) =>
              /\ result'[p].err = "proto"
              /\ result'[p].lines = <<>>
              /\ UNCHANGED <<done, whPc, notifyClosed, closing, conn>>
              /\ hist'.fatal = hist.fatal
              /\ mhPc' = "scan"
              /\ buf' = <<>>
              /\ p \in Users => pc'[p] = "idle"]_vars

C21_Witness ==
    \E u \in Users, p \in Procs :
        /\ pc[u] = "idle"
        /\ result[u].err = "proto"
        /\ result[u].of = cmd[u].id
        /\ IsConnected
        /\ whPc = "select"
        /\ pc[p] = "idle"
        /\ result[p].err = "nil"
        /\ result[p].of = cmd[p].id
        /\ Len(result[p].lines) = MaxData

\* The connection is idle: nothing is in flight in either direction, both
\* loops wait (messageHandler in Scan, workHandler in its select), and neither
\* end has closed or broken the connection.
IdleConn ==
    /\ IsConnected
    /\ ~closing
    /\ mhPc = "scan"
    /\ whPc = "select"
    /\ inbox = <<>>
    /\ srvIn = <<>>
    /\ conn = [closed |-> FALSE, writeBroken |-> FALSE, eof |-> FALSE]

\* No call is in progress.
NoCall == \A p \in Procs : pc[p] = "idle"

\* C22: inactivity never causes a failure.  While the connection is idle and
\* no call is in progress, a step without traffic (nothing arrives, nothing
\* breaks, no call begins) changes nothing of the client: done stays open and
\* both loops keep waiting, however often the keep-alive timer fires.  The
\* write of a command handed over on an idle connection succeeds: the command
\* reaches the server and done stays open.
C22_InactivityHarmless ==
    [][/\ (IdleConn /\ NoCall /\ UNCHANGED <<conn, inbox, pc>>) =>
              /\ UNCHANGED <<done, closing, mhPc, whPc, mhResp, buf,
                             notifyClosed, srvIn, result>>
              /\ hist'.fatal = hist.fatal
              /\ hist'.doneCloses = hist.doneCloses
       /\ (IdleConn /\ NoCall) => ~ENABLED MessageScanFail
       /\ \A p \in Procs : (IdleConn /\ pc[p] = "send" /\ pc'[p] # "send") =>
              /\ pc'[p] = "wait"
              /\ srvIn' = <<Wire(cmd[p])>>
              /\ UNCHANGED <<done, mhPc, whPc>>]_vars

C22_Witness ==
    /\ IdleConn
    /\ NoCall
    /\ ENABLED WorkKeepAlive
    /\ hist.timedOut = {}
    /\ ~hist.stray
    /\ \E u \in Users :
          /\ calls[u] = MaxCalls
          /\ result[u].err = "nil"
          /\ result[u].of = cmd[u].id

\* The ExecCmd call of p, whose command carries a decode target, receives a
\* successfully terminated response.
RecvForTarget(p) ==
    /\ pc[p] = "wait"
    /\ cmd[p].target
    /\ mhPc = "sendResp"
    /\ mhResp.err = "nil"
    /\ pc'[p] # "wait"
    /\ mhPc' # "sendResp"

\* C23: when a command carries a decode target and the successfully
\* terminated response it receives has no data line or more than one, ExecCmd
\* returns the error of DecodeResponse and no lines; with one data line it
\* returns the line or a decode error.  The connection is left as it was: done
\* is not closed and both loops keep running.
C23_DecodeErrorReturned ==
    [][\A p \in Procs : RecvForTarget(p) =>
          /\ Len(mhResp.lines) = 0 => result'[p].err = "no lines"
          /\ Len(mhResp.lines) > 1 => result'[p].err = "too many lines"
          /\ Len(mhResp.lines) = 1 =>
                \/ result'[p].err = "decode"
                \/ result'[p] = mhResp
          /\ result'[p].err \in DecodeErrors => result'[p].lines = <<>>
          /\ UNCHANGED <<done, whPc, notifyClosed, closing, conn>>
          /\ mhPc' = "scan"
          /\ hist'.fatal = hist.fatal]_vars

C23_Witness ==
    \E u \in Users :
        /\ pc[u] = "idle"
        /\ cmd[u].target
        /\ result[u].err = "too many lines"
        /\ result[u].of = cmd[u].id
        /\ result[u].lines = <<>>
        /\ IdleConn

\* C24: Decode(Encode(s)) = s for every string s of escapable characters
\* (backslash, slash, space, pipe, bell, backspace, form-feed, newline,
\* carriage-return, tab, vertical-tab) and ordinary characters.
C24_DecodeEncodeRoundTrip == fx.op = "decoded" => fx.out = fx.in

C24_Witness ==
    /\ fx.op = "decoded"
    /\ fx.in = <<"\\", "s", " ">>
    /\ fx.out = fx.in

\* The records of the line that was decoded.
RecordsOf(line) == Split(line, "|")

\* C25: DecodeResponse on a line with two or more pipe-separated records and
\* a singular (non-slice) target returns an error.
C25_ExcessRecordsRejected ==
    (/\ fx.op = "response"
     /\ fx.in.target.kind = "struct"
     /\ Len(RecordsOf(fx.in.line)) >= 2) => fx.out.err

\* The record alone, decoded into a struct at its zero value.
Alone(record) == DecodeResponseInto(record, "struct", ZeroStruct)

\* C26: DecodeResponse on one line with N pipe-separated records and a slice
\* target, when it returns no error, has appended exactly N elements to what
\* the slice held, in the order of the records, each equal to what its record
\* alone decodes to; when it returns an error it has appended the elements of
\* the records before the one that failed.
C26_SliceOneElementPerRecord ==
    (fx.op = "response" /\ fx.in.target.kind = "slice") =>
        LET recs == RecordsOf(fx.in.line)
            old == fx.in.target.v
            new == fx.out.val IN
          /\ ~fx.out.err => Len(new) = Len(old) + Len(recs)
          /\ fx.out.err => Len(new) < Len(old) + Len(recs)
          /\ Len(new) >= Len(old)
          /\ SubSeq(new, 1, Len(old)) = old
          /\ \A i \in 1..(Len(new) - Len(old)) :
                /\ ~Alone(recs[i]).err
                /\ new[Len(old) + i] = Alone(recs[i]).val

C26_Witness ==
    /\ fx.op = "response"
    /\ fx.in.target.kind = "slice"
    /\ fx.in.line = <<"a", "=", "1", "|", "s", "=", "0", "1", "|", "t", "=", "7", " ", "a", "=", "1">>
    /\ Len(fx.in.target.v) = 1
    /\ ~fx.out.err
    /\ Len(fx.out.val) = 4
    /\ fx.out.val[3] = [a |-> 0, s |-> <<"1">>, t |-> ZeroTime]

\* C27: decoding the value 0 into a time-typed field succeeds and leaves the
\* field at its zero value: no error and not the epoch origin.
C27_ZeroTimeStaysZero ==
    (/\ fx.op = "response"
     /\ fx.in.target.kind = "struct"
     /\ fx.in.line = <<"t", "=", "0">>) =>
        /\ ~fx.out.err
        /\ fx.out.val.t = ZeroTime

\* The fields of a notification line as sent: the tokens after the first word.
SentFields(line) == IF Positions(line, " ") = {} THEN <<>> ELSE Split(SplitN2(line, " ")[2], " ")

\* The key of a field as sent, and the text of its value (empty for a bare token).
SentKey(field) == Decode(SplitN2(field, "=")[1])
SentValue(field) == IF Len(SplitN2(field, "=")) = 2 THEN Decode(SplitN2(field, "=")[2]) ELSE <<>>

\* C28: for every notification line decodeNotification yields Type equal to
\* the first token without the notify prefix, and Data maps the key of every
\* field to the decoded text of its value exactly as sent: only the first =
\* separates key from value, and a bare token maps to the empty string.
C28_NotificationDataAsSent ==
    fx.op = "notification" =>
        LET fields == SentFields(fx.in) IN
          /\ ~fx.out.panic
          /\ ~fx.out.err
          /\ <<NotifyPrefix>> \o fx.out.type = SplitN2(fx.in, " ")[1]
          /\ \A i \in DOMAIN fields :
                (\A j \in DOMAIN fields : j > i => SentKey(fields[j]) # SentKey(fields[i])) =>
                    /\ SentKey(fields[i]) \in DOMAIN fx.out.data
                    /\ fx.out.data[SentKey(fields[i])] = SentValue(fields[i])

\* The lines are the first data lines of one response, in the order sent.
DataInOrder(lines) ==
    \A i \in DOMAIN lines :
        /\ lines[i].kind = "data"
        /\ lines[i].no = i
        /\ lines[i].cmd = lines[1].cmd

\* messageHandler reads the line at the head of the connection's input.
ReadsLine == mhPc = "scan" /\ inbox # <<>> /\ inbox' = Tail(inbox)

\* C29: the lines returned by a successful ExecCmd are exactly the received
\* lines that were neither trailers nor notifications and were read since the
\* previous trailer, in arrival order: a success trailer that the server sent
\* after n data lines yields exactly those n lines, a notification between
\* them is left out, and the caller that receives the response returns them
\* unchanged.  After every trailer the loop reads on with an empty buffer.
C29_LinesSincePreviousTrailer ==
    [][/\ mhPc' = "scan" => DataInOrder(buf')
       /\ (ReadsLine /\ Head(inbox).kind = "ok") =>
              /\ mhResp'.err = "nil"
              /\ mhResp'.lines = buf
              /\ Len(buf) = Head(inbox).no
              /\ \A i \in DOMAIN buf : buf[i].cmd = Head(inbox).cmd
              /\ buf' = <<>>
       /\ (ReadsLine /\ Head(inbox).kind = "err") => mhResp'.lines = <<>>
       /\ (ReadsLine /\ IsNotifyLine(Head(inbox))) => buf' = buf
       /\ (ReadsLine /\ Head(inbox).kind = "data") => buf' = Append(buf, Head(inbox))
       /\ (mhPc = "sendResp" /\ mhPc' = "scan") => buf' = <<>>
       /\ \A p \in Procs :
              (pc[p] = "wait" /\ pc'[p] # "wait" /\ result'[p].err = "nil") =>
                  /\ mhPc = "sendResp"
                  /\ result'[p].lines = mhResp.lines
                  /\ DataInOrder(result'[p].lines)]_vars

C29_Witness ==
    \E u \in Users :
        /\ pc[u] = "idle"
        /\ result[u].err = "nil"
        /\ Len(result[u].lines) = MaxLines
        /\ DataInOrder(result[u].lines)
        /\ notify # <<>>
        /\ Head(notify).cmd[1] = u
        /\ mhPc = "scan"
        /\ buf = <<>>

\* No ExecCmd call is in progress: nobody is there to receive a response.
NoReceiver == \A p \in Procs : ~ExecInProgress(p)

\* The read loop has not ended, and a line has arrived that it has not read.
LinePending == mhPc \in {"scan", "sendResp"} /\ inbox # <<>>

\* C30: a trailer that arrives while no ExecCmd call is waiting does not
\* stall the read loop: whenever a line is pending and no call is in progress,
\* messageHandler can read the line, without any further ExecCmd call.
C30_LateTrailerNoStall == (LinePending /\ NoReceiver) => ENABLED MessageScan

\* ---------------------------------------------------------------- C31
\* A line that is a trailer: the success trailer or a match of respTrailerRe.
IsTrailer(line) == line = okTrailer \/ respTrailerRe(line).matched

\* The error id of a trailer.
TrailerId(line) == Atoi(respTrailerRe(line).id).n

\* C31: a trailer completes the pending command with a protocol error only
\* when its error id is nonzero; every trailer whose id is 0 completes it
\* successfully.
C31_ErrorOnlyForNonzeroId ==
    (fx.op = "classified" /\ IsTrailer(fx.in)) =>
        /\ fx.out = "err" => TrailerId(fx.in) # 0
        /\ TrailerId(fx.in) = 0 => fx.out = "ok"

\* ---------------------------------------------------------------- C32
\* The step of workHandler in which the write of keepAliveData fails: it
\* leaves its select, with done still open, and returns.
KeepAliveFails == whPc = "select" /\ ~done /\ whPc' = "exited"

\* The first select of an ExecCmd call of p is decided.
LeavesFirstSelect(p) == pc[p] = "send" /\ pc'[p] # "send"

\* C32: whenever a keep-alive write fails, no ExecCmd call is waiting for a
\* response at that moment, and the next ExecCmd call returns an error.
C32_KeepAliveFailsWhileIdle ==
    [][/\ KeepAliveFails => InFlight = {}
       /\ \A p \in Procs :
             (whPc = "exited" /\ LeavesFirstSelect(p)) =>
                 (pc'[p] # "wait" /\ result'[p].err # "nil")]_vars

\* ---------------------------------------------------------------- C33
\* C33: responseErr never blocks forever: when no ExecCmd call receives from
\* c.response it gives up after responseErrTimeout, so after an unexpected
\* read failure the read loop terminates and closes c.notify, also when
\* several errors occur during one ExecCmd call; the write loop likewise
\* returns from responseErr.
C33_ResponseErrGivesUp ==
    /\ (mhPc = "respErr") ~> (mhPc = "exited" /\ notifyClosed)
    /\ (whPc = "respErr") ~> (whPc = "exited")

\* C33 witness: during the one call of a user a write and a read failed, not
\* in a Close; both loops went through responseErr, the caller received one
\* of the errors, and both loops have returned.
C33_Witness ==
    /\ ~closing
    /\ hist.failedWrite # NoId
    /\ whPc = "exited"
    /\ mhPc = "exited"
    /\ notifyClosed
    /\ \E u \in Users : pc[u] = "idle" /\ result[u] = ErrIO

\* ---------------------------------------------------------------- C34
\* A step of messageHandler: a line or a failure of Scan, a response taken
\* by a caller, the select of responseErr.
ReadLoopStep ==
    \/ MessageScan
    \/ MessageScanFail
    \/ MessageRespErr
    \/ \E p \in Procs : ExecRecv(p)

\* C34: after any fatal transport error, also a write failure while the read
\* side of the connection is still open, c.notify is eventually closed
\* without a call of Close: as long as it is open, the read loop, which
\* closes it, has a step to take whatever the server and the callers do.
C34_FatalClosesNotify == (hist.fatal /\ ~notifyClosed) => ENABLED ReadLoopStep

\* ---------------------------------------------------------------- C35
\* A Close that was called when done was already closed has returned.
ClosedAfterFailure(k) == pc[k] = "closed" /\ cmd[k].doneAtCall

\* C35: if the connection has already failed fatally (done is closed) when
\* Close is called, Close returns a non-nil error, has closed the underlying
\* connection, and returns only after both loops have exited.
C35_CloseAfterFailure ==
    \A k \in Closers :
        ClosedAfterFailure(k) =>
            /\ CloseReturn(k) # "nil"
            /\ conn.closed
            /\ mhPc = "exited"
            /\ whPc = "exited"

\* C35 witness: after a fatal error a Close was called and has returned
\* ErrNotConnected, the error of its Exec("quit").
C35_Witness ==
    \E k \in Closers :
        /\ ClosedAfterFailure(k)
        /\ hist.fatal
        /\ CloseReturn(k) = "ErrNotConnected"

\* ---------------------------------------------------------------- C36
\* workHandler takes a command from c.work and writes it.
CommandWritten == \E p \in Procs : pc[p] = "send" /\ pc'[p] = "wait"

Delivered(line) == notify' = Append(notify, line)

\* Nothing is sent on c.notify.
Dropped == notify' = notify

\* C37: every received line that begins with "notify" is either delivered to
\* c.notify or dropped, and the read loop then goes on with the next line;
\* so for a line that is an event name only, with no space and no fields.
C37_NotifyLineDeliveredOrDropped ==
    [][(ReadsLine /\ IsNotifyLine(Head(inbox))) =>
          /\ Delivered(Head(inbox)) \/ Dropped
          /\ mhPc' = "scan"]_vars

\* ---------------------------------------------------------------- C38
\* messageHandler or workHandler has returned.
LoopExited == mhPc = "exited" \/ whPc = "exited"

\* C38: whenever c.notify is closed, done is closed already; and whenever
\* either background loop has exited, done is closed, so that IsConnected
\* is false in both cases.
C38_ExitImpliesDone ==
    /\ notifyClosed => (done /\ ~IsConnected)
    /\ LoopExited => (done /\ ~IsConnected)

\* C38 witness: a Close without any fatal error: the read loop met the
\* expected end of the stream, both loops have returned and c.notify is closed.
C38_Witness ==
    /\ notifyClosed
    /\ mhPc = "exited"
    /\ whPc = "exited"
    /\ ~hist.fatal
    /\ done

\* ---------------------------------------------------------------- C39
\* C39: done is closed at most once in every interleaving, also when the read
\* loop and the write loop both fail and when a failure meets a Close: the
\* channel is closed exactly if one close was made, whichever calls of
\* closeDone came after it.
C39_DoneClosedOnce ==
    /\ hist.doneCloses \in {0, 1}
    /\ done <=> hist.doneCloses = 1

\* C39 witness: a write failed and, before that error was taken by anybody, a
\* read failed too: both loops have called fatalError and are in responseErr,
\* and done was closed once.
C39_Witness ==
    /\ ~closing
    /\ hist.failedWrite # NoId
    /\ whPc = "respErr"
    /\ mhPc = "respErr"
    /\ done
    /\ hist.doneCloses = 1

====
